---- MODULE Spec2Model ----
(***************************************************************************)
(* DevTrackr: the time-tracking state machine, cursor pagination, the      *)
(* cursor codec and the search-query helpers, modelled from the routers    *)
(* and utilities of the repository.                                        *)
(***************************************************************************)
EXTENDS Integers, Sequences, FiniteSets, TLC

VARIABLES tasks, entries, now, nextTaskId, nextEntryId, txn, page, pure

vars == <<tasks, entries, now, nextTaskId, nextEntryId, txn, page, pure>>

-----------------------------------------------------------------------------
(* Bounds of the model *)

NumUsers == 2
MaxTasks == 2
MaxEntries == 2
MaxTicks == 2
MaxLegacy == 1
NumReqs == 2
MaxId == 11
MaxInstant == 10
MaxPageTasks == 2
MaxStamp == 1
MaxLimit == 1
MaxInserts == 1
MaxQueryLen == 4
MaxSearchTasks == 2
MaxSearchLen == 2

(* Clock granularity: the clock is read in seconds and advances by a minute *)
(* and ten seconds, so that durations are truncated                         *)
TickStep == 70
MaxTime == MaxTicks * TickStep

Users == 1..NumUsers

(* Optional values: None is Python's None, Some(v) a present value *)
None == <<>>
Some(v) == <<v>>
Val(o) == o[1]

(* datetime values: seconds, microseconds, and the zone ("utc" or "naive") *)
Inst(t) == [t |-> t, us |-> 0, tz |-> "utc"]

(* Python's int(x / 60): truncation toward zero *)
IntDiv60(secs) == IF secs >= 0 THEN secs \div 60 ELSE -((-secs) \div 60)

(* Python truthiness of an Optional[int] *)
Truthy(o) == o # None /\ Val(o) # 0

-----------------------------------------------------------------------------
(* The store after construction: no rows *)

NoTxn == <<>>
NoPage == [phase |-> "off"]
NoPure == [fn |-> "off"]

StoreInit ==
    /\ tasks = <<>>
    /\ entries = <<>>
    /\ now = 0
    /\ nextTaskId = 1
    /\ nextEntryId = 1

Init ==
    /\ StoreInit
    /\ txn = NoTxn
    /\ page = NoPage
    /\ pure = NoPure

(* select(TimeEntry).where(owner_id == u, status == active) *)
ActiveOf(es, u) == {e \in DOMAIN es : es[e].owner_id = u /\ es[e].status = "active"}

(* The clock of the server advances *)
Tick ==
    /\ now + TickStep <= MaxTime
    /\ now' = now + TickStep
    /\ UNCHANGED <<tasks, entries, nextTaskId, nextEntryId, txn, page, pure>>

(* Task(...) as create_task builds it: status todo, priority medium, not   *)
(* archived; the title is a text of one word; created_at and updated_at    *)
(* are the server default now()                                            *)
NewTask(id, u, created_at, am) ==
    [id |-> id, owner_id |-> u, created_at |-> created_at, updated_at |-> created_at,
     title |-> <<"a">>,
     category |-> None, status |-> "todo", priority |-> "medium", due_date |-> None,
     is_archived |-> FALSE, actual_minutes |-> am]

(* the row of a task after a commit: the UPDATE is emitted only when a     *)
(* column has changed, and it sets updated_at (onupdate=func.now())        *)
Touch(row0, row1, t) == IF row1 = row0 THEN row0 ELSE [row1 EXCEPT !.updated_at = Inst(t)]

(* POST /tasks *)
create_task(u, am) ==
    /\ nextTaskId <= MaxTasks
    /\ tasks' = [i \in DOMAIN tasks \cup {nextTaskId} |->
                    IF i = nextTaskId THEN NewTask(nextTaskId, u, Inst(now), am)
                    ELSE tasks[i]]
    /\ nextTaskId' = nextTaskId + 1
    /\ UNCHANGED <<entries, now, nextEntryId, txn, page, pure>>

(* start_timer without the lookup of an existing active entry *)
StartCode_NoActiveCheck(ts, es, u, tid) ==
    IF tid \notin DOMAIN ts THEN 404
    ELSE IF ts[tid].owner_id # u THEN 403
    ELSE 201

(* start_timer whose lookup of an active entry is narrowed to the requested task *)
StartCode_SameTaskOnly(ts, es, u, tid) ==
    IF tid \notin DOMAIN ts THEN 404
    ELSE IF ts[tid].owner_id # u THEN 403
    ELSE IF \E e \in ActiveOf(es, u) : es[e].task_id = tid THEN 400
    ELSE 201

(* start_timer whose lookup counts every entry of the caller, whatever its status *)
StartCode_AnyEntryBlocks(ts, es, u, tid) ==
    IF tid \notin DOMAIN ts THEN 404
    ELSE IF ts[tid].owner_id # u THEN 403
    ELSE IF \E e \in DOMAIN es : es[e].owner_id = u THEN 400
    ELSE 201

(* Outcome of start_timer's checks against a store snapshot *)
StartCode(ts, es, u, tid) ==
    IF tid \notin DOMAIN ts THEN 404
    ELSE IF ts[tid].owner_id # u THEN 403
    ELSE IF Cardinality(ActiveOf(es, u)) > 1 THEN 500
    ELSE IF ActiveOf(es, u) # {}
         THEN (IF \E e \in ActiveOf(es, u) : es[e].task_id \in DOMAIN ts THEN 400 ELSE 500)
    ELSE 201

NewEntry(id, u, tid, t) ==
    [id |-> id, task_id |-> tid, owner_id |-> u, start_time |-> t,
     end_time |-> None, duration_minutes |-> None, status |-> "active"]

InsertEntry(es, id, row) == [i \in DOMAIN es \cup {id} |-> IF i = id THEN row ELSE es[i]]

(* POST /time/start *)
start_timer(u, tid) ==
    LET code == StartCode(tasks, entries, u, tid) IN
    /\ code = 201 => nextEntryId <= MaxEntries
    /\ IF code = 201
       THEN /\ entries' = InsertEntry(entries, nextEntryId, NewEntry(nextEntryId, u, tid, now))
            /\ nextEntryId' = nextEntryId + 1
       ELSE UNCHANGED <<entries, nextEntryId>>
    /\ UNCHANGED <<tasks, now, nextTaskId, txn, page, pure>>

(* stop_timer without the test of the entry's status *)
StopCode_NoStatusCheck(ts, es, u, eid) ==
    IF eid \notin DOMAIN es THEN 404
    ELSE IF es[eid].owner_id # u THEN 403
    ELSE IF es[eid].task_id \notin DOMAIN ts THEN 500
    ELSE 200

StopCode(ts, es, u, eid) ==
    IF eid \notin DOMAIN es THEN 404
    ELSE IF es[eid].owner_id # u THEN 403
    ELSE IF es[eid].status # "active" THEN 400
    ELSE IF es[eid].task_id \notin DOMAIN ts THEN 500
    ELSE 200

(* a stop that overwrites the total instead of adding to it *)
AddMinutes_Overwrite(am, d) == Some(d)

(* the actual_minutes of the task after a stop adds the duration *)
AddMinutes(am, d) == IF am = None THEN Some(d) ELSE Some(Val(am) + d)

(* POST /time/stop/{time_entry_id} *)
stop_timer(u, eid) ==
    LET code == StopCode(tasks, entries, u, eid) IN
    /\ IF code = 200
       THEN LET e == entries[eid]
                d == IntDiv60(now - e.start_time)
            IN /\ entries' = [entries EXCEPT ![eid] =
                                [e EXCEPT !.end_time = Some(now),
                                          !.duration_minutes = Some(d),
                                          !.status = "completed"]]
               /\ tasks' = [tasks EXCEPT ![e.task_id] =
                              Touch(@, [@ EXCEPT !.actual_minutes = AddMinutes(@, d)], now)]
       ELSE UNCHANGED <<tasks, entries>>
    /\ UNCHANGED <<now, nextTaskId, nextEntryId, txn, page, pure>>

(* the response of get_active_timer: scalar_one_or_none() raises when the  *)
(* select returns more than one row, and the exception is answered 500     *)
ActiveTimer(ts, es, u, t) ==
    LET act == ActiveOf(es, u)
        e == es[CHOOSE x \in act : TRUE]
    IN IF Cardinality(act) > 1 THEN [code |-> 500, body |-> None]
       ELSE IF act = {} THEN [code |-> 200, body |-> None]
       ELSE IF e.task_id \notin DOMAIN ts THEN [code |-> 500, body |-> None]
       ELSE [code |-> 200,
             body |-> Some([time_entry_id |-> e.id, task_id |-> e.task_id,
                            start_time |-> e.start_time,
                            elapsed_minutes |-> IntDiv60(t - e.start_time)])]

(* GET /time/active: reads the store and writes nothing *)
get_active_timer(u) ==
    /\ ActiveTimer(tasks, entries, u, now).code \in {200, 500}
    /\ UNCHANGED vars

(* the lookup of a time entry without the ownership test *)
EntryCode_NoOwnerCheck(es, u, eid) ==
    IF eid \notin DOMAIN es THEN 404
    ELSE 200

EntryCode(es, u, eid) ==
    IF eid \notin DOMAIN es THEN 404
    ELSE IF es[eid].owner_id # u THEN 403
    ELSE 200

(* TimeEntryUpdate payloads: the set of fields present and their values *)
EntryUpdates ==
    [fields : SUBSET {"end_time"},
     end_time : {None, Some(0)}]

(* an update that reopens the entry when its end_time is cleared *)
update_time_entry_Reopens(u, eid, upd) ==
    LET code == EntryCode(entries, u, eid) IN
    /\ "end_time" \notin upd.fields => upd.end_time = None
    /\ IF code = 200
       THEN LET e == entries[eid]
                e1 == [e EXCEPT !.end_time = IF "end_time" \in upd.fields
                                             THEN upd.end_time ELSE @,
                                !.status = IF "end_time" \in upd.fields /\ upd.end_time = None
                                           THEN "active" ELSE @]
                e2 == IF "end_time" \in upd.fields /\ upd.end_time # None
                      THEN [e1 EXCEPT !.duration_minutes =
                                Some(IntDiv60(Val(e1.end_time) - e1.start_time))]
                      ELSE e1
            IN entries' = [entries EXCEPT ![eid] = e2]
       ELSE UNCHANGED entries
    /\ UNCHANGED <<tasks, now, nextTaskId, nextEntryId, txn, page, pure>>

(* PATCH /time/entries/{time_entry_id} *)
update_time_entry(u, eid, upd) ==
    LET code == EntryCode(entries, u, eid) IN
    /\ "end_time" \notin upd.fields => upd.end_time = None
    /\ IF code = 200
       THEN LET e == entries[eid]
                e1 == [e EXCEPT !.end_time = IF "end_time" \in upd.fields
                                             THEN upd.end_time ELSE @]
                e2 == IF "end_time" \in upd.fields /\ upd.end_time # None
                      THEN [e1 EXCEPT !.duration_minutes =
                                Some(IntDiv60(Val(e1.end_time) - e1.start_time))]
                      ELSE e1
            IN entries' = [entries EXCEPT ![eid] = e2]
       ELSE UNCHANGED entries
    /\ UNCHANGED <<tasks, now, nextTaskId, nextEntryId, txn, page, pure>>

Max(a, b) == IF a >= b THEN a ELSE b

(* DELETE /time/entries/{time_entry_id} *)
delete_time_entry(u, eid) ==
    LET code0 == EntryCode(entries, u, eid)
        e == entries[eid]
        touches == e.status = "completed" /\ Truthy(e.duration_minutes)
        code == IF code0 # 200 THEN code0
                ELSE IF touches /\ e.task_id \notin DOMAIN tasks THEN 500
                ELSE 204
    IN
    /\ IF code = 204
       THEN /\ tasks' = IF touches /\ Truthy(tasks[e.task_id].actual_minutes)
                        THEN [tasks EXCEPT ![e.task_id] =
                                 Touch(@, [@ EXCEPT !.actual_minutes =
                                              Some(Max(0, Val(@) - Val(e.duration_minutes)))],
                                       now)]
                        ELSE tasks
            /\ entries' = [i \in DOMAIN entries \ {eid} |-> entries[i]]
       ELSE UNCHANGED <<tasks, entries>>
    /\ UNCHANGED <<now, nextTaskId, nextEntryId, txn, page, pure>>

(* The API with every request run to completion before the next begins *)
Next ==
    \/ Tick
    \/ \E u \in Users : create_task(u, None)
    \/ \E u \in Users, tid \in 1..MaxTasks : start_timer(u, tid)
    \/ \E u \in Users, eid \in 1..MaxEntries : stop_timer(u, eid)
    \/ \E u \in Users, eid \in 1..MaxEntries, upd \in EntryUpdates : update_time_entry(u, eid, upd)
    \/ \E u \in Users, eid \in 1..MaxEntries : delete_time_entry(u, eid)
    \/ \E u \in Users : get_active_timer(u)

Spec == Init /\ [][Next]_vars

(* PATCH /tasks/{task_id} payloads: the fields present and their values *)
TaskUpdates ==
    [fields : SUBSET {"actual_minutes", "is_archived"},
     actual_minutes : {None, Some(0)},
     is_archived : {None, Some(TRUE), Some(FALSE)}]

TaskCode(ts, u, tid) ==
    IF tid \notin DOMAIN ts THEN 404
    ELSE IF ts[tid].owner_id # u THEN 403
    ELSE 200

(* PATCH /tasks/{task_id}; a null is_archived violates the NOT NULL column *)
update_task(u, tid, upd) ==
    LET code0 == TaskCode(tasks, u, tid)
        code == IF code0 # 200 THEN code0
                ELSE IF "is_archived" \in upd.fields /\ upd.is_archived = None THEN 500
                ELSE 200
    IN
    /\ "actual_minutes" \notin upd.fields => upd.actual_minutes = None
    /\ "is_archived" \notin upd.fields => upd.is_archived = None
    /\ IF code = 200
       THEN tasks' = [tasks EXCEPT ![tid] =
                        Touch(@,
                              [@ EXCEPT !.actual_minutes = IF "actual_minutes" \in upd.fields
                                                           THEN upd.actual_minutes ELSE @,
                                        !.is_archived = IF "is_archived" \in upd.fields
                                                        THEN Val(upd.is_archived) ELSE @],
                              now)]
       ELSE UNCHANGED tasks
    /\ UNCHANGED <<entries, now, nextTaskId, nextEntryId, txn, page, pure>>

(* DELETE /tasks/{task_id}?hard=...: the soft delete archives the task, the  *)
(* hard delete removes the row.  fk says whether the store enforces the      *)
(* foreign key time_entries.task_id (PostgreSQL does, SQLite as the tests    *)
(* open it does not): an enforced key makes the commit fail when entries     *)
(* still reference the task                                                  *)
delete_task(u, tid, hard, fk) ==
    LET code0 == TaskCode(tasks, u, tid)
        code == IF code0 # 200 THEN code0
                ELSE IF hard /\ fk /\ (\E e \in DOMAIN entries : entries[e].task_id = tid) THEN 500
                ELSE 204
    IN
    /\ IF code = 204
       THEN tasks' = IF hard THEN [i \in DOMAIN tasks \ {tid} |-> tasks[i]]
                     ELSE [tasks EXCEPT ![tid] = Touch(@, [@ EXCEPT !.is_archived = TRUE], now)]
       ELSE UNCHANGED tasks
    /\ UNCHANGED <<entries, now, nextTaskId, nextEntryId, txn, page, pure>>

(* POST /tasks/{task_id}/stop-timer (legacy): minutes_spent is any integer *)
stop_task_timer(u, tid, minutes_spent) ==
    LET code == TaskCode(tasks, u, tid) IN
    /\ IF code = 200
       THEN /\ Val(AddMinutes(tasks[tid].actual_minutes, minutes_spent)) \in (-MaxLegacy)..MaxLegacy
            /\ tasks' = [tasks EXCEPT ![tid] =
                           Touch(@, [@ EXCEPT !.actual_minutes = AddMinutes(@, minutes_spent)], now)]
       ELSE UNCHANGED tasks
    /\ UNCHANGED <<entries, now, nextTaskId, nextEntryId, txn, page, pure>>

(* Timers and the deletion of tasks, requests run one after the other *)
NextDelete ==
    \/ Tick
    \/ \E u \in Users : create_task(u, None)
    \/ \E u \in Users, tid \in 1..MaxTasks : start_timer(u, tid)
    \/ \E u \in Users, eid \in 1..MaxEntries : stop_timer(u, eid)
    \/ \E u \in Users, tid \in 1..MaxTasks, hard \in BOOLEAN, fk \in BOOLEAN :
          delete_task(u, tid, hard, fk)

SpecDelete == Init /\ [][NextDelete]_vars

(* POST /tasks/{task_id}/unarchive: [code] of the checks, 400 when the task *)
(* is not archived                                                          *)
UnarchiveCode(ts, u, tid) ==
    IF TaskCode(ts, u, tid) # 200 THEN TaskCode(ts, u, tid)
    ELSE IF ~ts[tid].is_archived THEN 400
    ELSE 200

(* the response of unarchive_task: after the commit the handler calls        *)
(* ActivityLogger.log_task_unarchived, which the logger does not define, so  *)
(* the request that passed the checks ends with an unhandled AttributeError  *)
UnarchiveResponse(ts, u, tid) ==
    IF UnarchiveCode(ts, u, tid) = 200 THEN 500 ELSE UnarchiveCode(ts, u, tid)

(* an unarchive that also clears the minutes of the task *)
unarchive_task_ResetsMinutes(u, tid) ==
    /\ IF UnarchiveCode(tasks, u, tid) = 200
       THEN tasks' = [tasks EXCEPT ![tid] =
                        Touch(@, [@ EXCEPT !.is_archived = FALSE, !.actual_minutes = None], now)]
       ELSE UNCHANGED tasks
    /\ UNCHANGED <<entries, now, nextTaskId, nextEntryId, txn, page, pure>>

unarchive_task(u, tid) ==
    /\ IF UnarchiveCode(tasks, u, tid) = 200
       THEN tasks' = [tasks EXCEPT ![tid] = Touch(@, [@ EXCEPT !.is_archived = FALSE], now)]
       ELSE UNCHANGED tasks
    /\ UNCHANGED <<entries, now, nextTaskId, nextEntryId, txn, page, pure>>

(* GET /tasks/{task_id}: [code, body] *)
get_task(ts, u, tid) ==
    IF TaskCode(ts, u, tid) # 200 THEN [code |-> TaskCode(ts, u, tid), body |-> None]
    ELSE [code |-> 200, body |-> Some(ts[tid])]

(* The operations on tasks, requests run one after the other *)
NextTasks ==
    \/ Tick
    \/ \E u \in Users : create_task(u, None)
    \/ \E u \in Users, tid \in 1..MaxTasks, upd \in TaskUpdates : update_task(u, tid, upd)
    \/ \E u \in Users, tid \in 1..MaxTasks, hard \in BOOLEAN : delete_task(u, tid, hard, TRUE)
    \/ \E u \in Users, tid \in 1..MaxTasks : unarchive_task(u, tid)

SpecTasks == Init /\ [][NextTasks]_vars

(* Every operation on a task and on its time entries, the legacy endpoint   *)
(* included, requests run one after the other while the clock stands still  *)
NextApi ==
    \/ \E u \in Users, am \in {None, Some(1)} : create_task(u, am)
    \/ \E u \in Users, tid \in 1..MaxTasks : start_timer(u, tid)
    \/ \E u \in Users, eid \in 1..MaxEntries : stop_timer(u, eid)
    \/ \E u \in Users, eid \in 1..MaxEntries, upd \in EntryUpdates : update_time_entry(u, eid, upd)
    \/ \E u \in Users, eid \in 1..MaxEntries : delete_time_entry(u, eid)
    \/ \E u \in Users : get_active_timer(u)
    \/ \E u \in Users, tid \in 1..MaxTasks, upd \in TaskUpdates : update_task(u, tid, upd)
    \/ \E u \in Users, tid \in 1..MaxTasks : delete_task(u, tid, FALSE, TRUE)
    \/ \E u \in Users, tid \in 1..MaxTasks : unarchive_task(u, tid)
    \/ \E u \in Users, tid \in 1..MaxTasks, m \in {-1, 1} : stop_task_timer(u, tid, m)

SpecApi == Init /\ [][NextApi]_vars

-----------------------------------------------------------------------------
(* Concurrent requests: each request is its own store session, and the      *)
(* statements of start_timer up to the active-entry lookup and the insert   *)
(* with its commit are separate steps                                        *)

Reqs == 1..NumReqs

Idle == [pc |-> "idle", user |-> 0, tid |-> 0]

InitConc ==
    /\ StoreInit
    /\ txn = [r \in Reqs |-> Idle]
    /\ page = NoPage
    /\ pure = NoPure

(* start_timer, lines 28-51: db.get(Task), the ownership test and the lookup *)
(* of an active entry; an error ends the request                             *)
StartCheck(r, u, tid) ==
    /\ txn[r].pc = "idle"
    /\ txn' = [txn EXCEPT ![r] = IF StartCode(tasks, entries, u, tid) = 201
                                 THEN [pc |-> "insert", user |-> u, tid |-> tid]
                                 ELSE Idle]
    /\ UNCHANGED <<tasks, entries, now, nextTaskId, nextEntryId, page, pure>>

(* start_timer, lines 53-66: build the TimeEntry, db.add, db.commit *)
StartInsert(r) ==
    /\ txn[r].pc = "insert"
    /\ nextEntryId <= MaxEntries
    /\ entries' = InsertEntry(entries, nextEntryId,
                              NewEntry(nextEntryId, txn[r].user, txn[r].tid, now))
    /\ nextEntryId' = nextEntryId + 1
    /\ txn' = [txn EXCEPT ![r] = Idle]
    /\ UNCHANGED <<tasks, now, nextTaskId, page, pure>>

NextConc ==
    \/ Tick
    \/ \E u \in Users, am \in {None, Some(1)} : create_task(u, am)
    \/ \E r \in Reqs, u \in Users, tid \in 1..MaxTasks : StartCheck(r, u, tid)
    \/ \E r \in Reqs : StartInsert(r)
    \/ \E u \in Users, eid \in 1..MaxEntries : stop_timer(u, eid)
    \/ \E u \in Users : get_active_timer(u)

SpecConc == InitConc /\ [][NextConc]_vars

(* Concurrent stop_timer and delete_time_entry: a request reads the entry    *)
(* and the task into its session, computes the new values there, and writes *)
(* them at its commit; the store takes no lock between the two steps        *)

(* stop_timer, lines 77-112: the checks, the clock read and the new values  *)
StopRead(r, u, eid) ==
    /\ txn[r].pc = "idle"
    /\ txn' = [txn EXCEPT ![r] =
                 IF StopCode(tasks, entries, u, eid) = 200
                 THEN [pc |-> "stop_commit", user |-> u, eid |-> eid,
                       tid |-> entries[eid].task_id,
                       am |-> tasks[entries[eid].task_id].actual_minutes,
                       end |-> now,
                       d |-> IntDiv60(now - entries[eid].start_time)]
                 ELSE Idle]
    /\ UNCHANGED <<tasks, entries, now, nextTaskId, nextEntryId, page, pure>>

(* stop_timer, lines 114-116: the UPDATE of the entry and of the task; the  *)
(* task is written when its new value differs from the value read; an entry *)
(* deleted in between makes the UPDATE match no row and the commit fail     *)
StopCommit(r) ==
    LET q == txn[r] IN
    /\ q.pc = "stop_commit"
    /\ IF q.eid \in DOMAIN entries
       THEN /\ entries' = [entries EXCEPT ![q.eid] =
                             [@ EXCEPT !.end_time = Some(q.end),
                                       !.duration_minutes = Some(q.d),
                                       !.status = "completed"]]
            /\ tasks' = IF AddMinutes(q.am, q.d) # q.am
                        THEN [tasks EXCEPT ![q.tid] =
                                 Touch(@, [@ EXCEPT !.actual_minutes = AddMinutes(q.am, q.d)], now)]
                        ELSE tasks
       ELSE UNCHANGED <<tasks, entries>>
    /\ txn' = [txn EXCEPT ![r] = Idle]
    /\ UNCHANGED <<now, nextTaskId, nextEntryId, page, pure>>

(* delete_time_entry, lines 321-339: the checks and the new value of the    *)
(* task's actual_minutes                                                    *)
DeleteRead(r, u, eid) ==
    /\ txn[r].pc = "idle"
    /\ txn' = [txn EXCEPT ![r] =
                 IF EntryCode(entries, u, eid) = 200
                 THEN LET e == entries[eid]
                          am == tasks[e.task_id].actual_minutes
                          touches == e.status = "completed" /\ Truthy(e.duration_minutes)
                                     /\ Truthy(am)
                      IN [pc |-> "delete_commit", user |-> u, eid |-> eid, tid |-> e.task_id,
                          touches |-> touches,
                          am |-> IF touches THEN Some(Max(0, Val(am) - Val(e.duration_minutes)))
                                 ELSE am]
                 ELSE Idle]
    /\ UNCHANGED <<tasks, entries, now, nextTaskId, nextEntryId, page, pure>>

(* delete_time_entry, lines 341-342: the UPDATE of the task and the DELETE  *)
(* of the entry; when the entry is gone already the DELETE matches no row,  *)
(* which the session either reports as an error (strict) or lets pass       *)
DeleteCommit(r, strict) ==
    LET q == txn[r] IN
    /\ q.pc = "delete_commit"
    /\ IF q.eid \in DOMAIN entries \/ ~strict
       THEN /\ tasks' = IF q.touches
                        THEN [tasks EXCEPT ![q.tid] =
                                 Touch(@, [@ EXCEPT !.actual_minutes = q.am], now)]
                        ELSE tasks
            /\ entries' = [i \in DOMAIN entries \ {q.eid} |-> entries[i]]
       ELSE UNCHANGED <<tasks, entries>>
    /\ txn' = [txn EXCEPT ![r] = Idle]
    /\ UNCHANGED <<now, nextTaskId, nextEntryId, page, pure>>

NextRace ==
    \/ Tick
    \/ \E u \in Users : create_task(u, None)
    \/ \E u \in Users, tid \in 1..MaxTasks : start_timer(u, tid)
    \/ \E r \in Reqs, u \in Users, eid \in 1..MaxEntries : StopRead(r, u, eid)
    \/ \E r \in Reqs : StopCommit(r)
    \/ \E r \in Reqs, u \in Users, eid \in 1..MaxEntries : DeleteRead(r, u, eid)
    \/ \E r \in Reqs, strict \in BOOLEAN : DeleteCommit(r, strict)

SpecRace == InitConc /\ [][NextRace]_vars

-----------------------------------------------------------------------------
(* The steps of one request against its store session: get_db opens the      *)
(* session and closes it when the request ends, and commits nothing and      *)
(* rolls nothing back itself; what a handler has committed stays.  The       *)
(* activity log is kept by a collaborator: its write succeeds or raises.     *)
(* txn holds the position of the request in flight, the tasks as they were   *)
(* when it began, and its response                                           *)

NoRequest == [pc |-> "idle", op |-> "none", code |-> 0, before |-> <<>>]

InitUnit ==
    /\ StoreInit
    /\ txn = NoRequest
    /\ page = NoPage
    /\ pure = NoPure

(* create_task, lines 35-50: build the Task, db.add, db.commit, db.refresh *)
CreateTaskCommit(u, am) ==
    /\ txn.pc = "idle"
    /\ nextTaskId <= MaxTasks
    /\ tasks' = [i \in DOMAIN tasks \cup {nextTaskId} |->
                    IF i = nextTaskId THEN NewTask(nextTaskId, u, Inst(now), am)
                    ELSE tasks[i]]
    /\ nextTaskId' = nextTaskId + 1
    /\ txn' = [pc |-> "log", op |-> "create", code |-> 0, before |-> tasks]
    /\ UNCHANGED <<entries, now, nextEntryId, page, pure>>

(* unarchive_task, lines 361-375: the checks, then is_archived = False and   *)
(* db.commit; a failed check ends the request with its error                 *)
UnarchiveCommit(u, tid) ==
    /\ txn.pc = "idle"
    /\ IF UnarchiveCode(tasks, u, tid) = 200
       THEN /\ tasks' = [tasks EXCEPT ![tid] = Touch(@, [@ EXCEPT !.is_archived = FALSE], now)]
            /\ txn' = [pc |-> "log", op |-> "unarchive", code |-> 0, before |-> tasks]
       ELSE /\ UNCHANGED tasks
            /\ txn' = [pc |-> "done", op |-> "unarchive",
                       code |-> UnarchiveCode(tasks, u, tid), before |-> tasks]
    /\ UNCHANGED <<entries, now, nextTaskId, nextEntryId, page, pure>>

(* the call of the activity logger after the commit.  log_task_created adds  *)
(* the row and commits on the same session: ok says whether that commit      *)
(* succeeds, and its exception leaves the handler.  log_task_unarchived is   *)
(* not defined by ActivityLogger, so the call raises AttributeError          *)
LogActivity(ok) ==
    /\ txn.pc = "log"
    /\ txn' = [txn EXCEPT !.pc = "done",
                          !.code = IF txn.op = "create" /\ ok THEN 201 ELSE 500]
    /\ UNCHANGED <<tasks, entries, now, nextTaskId, nextEntryId, page, pure>>

(* get_db, finally: db.close() releases the session; committed rows stay *)
CloseSession ==
    /\ txn.pc = "done"
    /\ txn' = NoRequest
    /\ UNCHANGED <<tasks, entries, now, nextTaskId, nextEntryId, page, pure>>

NextUnit ==
    \/ txn.pc = "idle" /\ Tick
    \/ \E u \in Users : CreateTaskCommit(u, None)
    \/ \E u \in Users, tid \in 1..MaxTasks : UnarchiveCommit(u, tid)
    \/ \E ok \in BOOLEAN : LogActivity(ok)
    \/ CloseSession
    \/ \E u \in Users, tid \in 1..MaxTasks :
          txn.pc = "idle" /\ TaskCode(tasks, u, tid) = 200 /\ delete_task(u, tid, FALSE, TRUE)

SpecUnit == InitUnit /\ [][NextUnit]_vars

-----------------------------------------------------------------------------
(* The store on SQLite, the default DATABASE_URL of config.py and the store  *)
(* of the tests: Task.id is an INTEGER PRIMARY KEY without AUTOINCREMENT, so *)
(* an insert takes the largest id in the table plus one and gives the id of  *)
(* a deleted last row out again, and the foreign key time_entries.task_id is *)
(* not enforced                                                              *)

RowId(ts) == IF DOMAIN ts = {} THEN 1
             ELSE (CHOOSE m \in DOMAIN ts : \A i \in DOMAIN ts : i <= m) + 1

(* POST /tasks on SQLite *)
create_task_rowid(u, am) ==
    /\ RowId(tasks) <= MaxTasks
    /\ tasks' = [i \in DOMAIN tasks \cup {RowId(tasks)} |->
                    IF i = RowId(tasks) THEN NewTask(RowId(tasks), u, Inst(now), am)
                    ELSE tasks[i]]
    /\ UNCHANGED <<entries, now, nextTaskId, nextEntryId, txn, page, pure>>

NextRowid ==
    \/ Tick
    \/ \E u \in Users : create_task_rowid(u, None)
    \/ \E u \in Users, tid \in 1..MaxTasks : start_timer(u, tid)
    \/ \E u \in Users, eid \in 1..MaxEntries : stop_timer(u, eid)
    \/ \E u \in Users, eid \in 1..MaxEntries : delete_time_entry(u, eid)
    \/ \E u \in Users, tid \in 1..MaxTasks, hard \in BOOLEAN : delete_task(u, tid, hard, FALSE)

SpecRowid == Init /\ [][NextRowid]_vars

-----------------------------------------------------------------------------
(* Cursor codec.  Text is a sequence of bytes.  A byte is the ASCII code of *)
(* a character; the fixed runs of the encoded cursor are abbreviated to one *)
(* byte each: 105 for the key text id, 99 for created_at, 84 for the date   *)
(* and hour-minute prefix of an ISO instant, 43 for the offset +00:00, 110  *)
(* for null and 116 for true.                                               *)

LBRACE == 123
RBRACE == 125
LBRACK == 91
RBRACK == 93
COLON == 58
COMMA == 44
QUOTE == 34
SPACE == 32
DOT == 46
ZED == 90
TEE == 84
PLUS == 43
KEY_ID == 105
KEY_CREATED_AT == 99
LIT_NULL == 110
LIT_TRUE == 116
LETTER_X == 120
DIGIT0 == 48

(* base64 characters: 0..63 the alphabet, PAD the = sign, JUNK any other *)
PAD == 64
JUNK == 65

IsDigit(b) == b >= DIGIT0 /\ b <= DIGIT0 + 9

RECURSIVE DigitsOf(_)
DigitsOf(n) == IF n < 10 THEN <<DIGIT0 + n>>
               ELSE DigitsOf(n \div 10) \o <<DIGIT0 + (n % 10)>>

Drop(s, k) == SubSeq(s, k + 1, Len(s))

(* length of the run of digits at the head of s *)
RECURSIVE DigitRun(_)
DigitRun(s) == IF s # <<>> /\ IsDigit(s[1]) THEN 1 + DigitRun(Tail(s)) ELSE 0

RECURSIVE NumOf(_)
NumOf(s) == IF s = <<>> THEN 0 ELSE 10 * NumOf(SubSeq(s, 1, Len(s) - 1)) + (s[Len(s)] - DIGIT0)

(* datetime.isoformat() without the fractional part *)
isoformat_NoMicros(d) ==
    <<TEE>> \o DigitsOf(d.t) \o (IF d.tz = "utc" THEN <<PLUS>> ELSE <<>>)

(* datetime.isoformat(): the fraction is written only when it is not zero, *)
(* the offset only for an aware value                                      *)
isoformat(d) ==
    <<TEE>> \o DigitsOf(d.t)
    \o (IF d.us # 0 THEN <<DOT>> \o DigitsOf(d.us) ELSE <<>>)
    \o (IF d.tz = "utc" THEN <<PLUS>> ELSE <<>>)

NoInstant == [t |-> 0, us |-> 0, tz |-> "none"]

(* datetime.fromisoformat(): [ok, d]; not ok is ValueError *)
fromisoformat(s) ==
    LET bad == [ok |-> FALSE, d |-> NoInstant]
        n1 == IF Len(s) >= 1 THEN DigitRun(Tail(s)) ELSE 0
        r1 == Drop(s, 1 + n1)
        hasFrac == r1 # <<>> /\ r1[1] = DOT
        n2 == IF hasFrac THEN DigitRun(Tail(r1)) ELSE 0
        r2 == IF hasFrac THEN Drop(r1, 1 + n2) ELSE r1
    IN IF s = <<>> \/ s[1] # TEE \/ n1 = 0 THEN bad
       ELSE IF hasFrac /\ n2 = 0 THEN bad
       ELSE IF r2 # <<>> /\ r2 # <<PLUS>> THEN bad
       ELSE [ok |-> TRUE,
             d |-> [t |-> NumOf(SubSeq(s, 2, 1 + n1)),
                    us |-> IF hasFrac THEN NumOf(SubSeq(r1, 2, 1 + n2)) ELSE 0,
                    tz |-> IF r2 = <<PLUS>> THEN "utc" ELSE "naive"]]

(* str.replace("Z", "+00:00") *)
RECURSIVE ReplaceZ(_)
ReplaceZ(s) == IF s = <<>> THEN <<>>
               ELSE (IF s[1] = ZED THEN <<PLUS>> ELSE <<s[1]>>) \o ReplaceZ(Tail(s))

(* JSON values *)
JInt(n) == [ty |-> "int", n |-> n, s |-> <<>>, items |-> <<>>]
JStr(b) == [ty |-> "str", n |-> 0, s |-> b, items |-> <<>>]
JNull == [ty |-> "null", n |-> 0, s |-> <<>>, items |-> <<>>]
JTrue == [ty |-> "true", n |-> 0, s |-> <<>>, items |-> <<>>]
JList(xs) == [ty |-> "list", n |-> 0, s |-> <<>>, items |-> xs]
JDict(ms) == [ty |-> "dict", n |-> 0, s |-> <<>>, items |-> ms]
Member(k, v) == [k |-> k, v |-> v]

(* json.dumps of a scalar, of a list of scalars, of a dict of scalars *)
DumpScalar(v) ==
    CASE v.ty = "int" -> DigitsOf(v.n)
      [] v.ty = "str" -> <<QUOTE>> \o v.s \o <<QUOTE>>
      [] v.ty = "null" -> <<LIT_NULL>>
      [] OTHER -> <<LIT_TRUE>>

RECURSIVE DumpItems(_)
DumpItems(xs) ==
    IF xs = <<>> THEN <<>>
    ELSE DumpScalar(xs[1]) \o (IF Len(xs) > 1 THEN <<COMMA, SPACE>> ELSE <<>>) \o DumpItems(Tail(xs))

RECURSIVE DumpMembers(_)
DumpMembers(ms) ==
    IF ms = <<>> THEN <<>>
    ELSE <<QUOTE>> \o ms[1].k \o <<QUOTE, COLON, SPACE>> \o DumpScalar(ms[1].v)
         \o (IF Len(ms) > 1 THEN <<COMMA, SPACE>> ELSE <<>>) \o DumpMembers(Tail(ms))

json_dumps(v) ==
    CASE v.ty = "list" -> <<LBRACK>> \o DumpItems(v.items) \o <<RBRACK>>
      [] v.ty = "dict" -> <<LBRACE>> \o DumpMembers(v.items) \o <<RBRACE>>
      [] OTHER -> DumpScalar(v)

(* json.loads, for scalars and for lists and dicts of scalars.  Each parser *)
(* answers [ok, v, rest]; not ok is JSONDecodeError.                        *)
RECURSIVE SkipWs(_)
SkipWs(s) == IF s # <<>> /\ s[1] = SPACE THEN SkipWs(Tail(s)) ELSE s

RECURSIVE IndexOfQuote(_)
IndexOfQuote(s) == IF s = <<>> THEN 0
                   ELSE IF s[1] = QUOTE THEN 1
                   ELSE LET k == IndexOfQuote(Tail(s)) IN IF k = 0 THEN 0 ELSE k + 1

ParseFail == [ok |-> FALSE, v |-> JNull, rest |-> <<>>]

ParseScalar(s0) ==
    LET s == SkipWs(s0) IN
    IF s = <<>> THEN ParseFail
    ELSE IF IsDigit(s[1])
         THEN LET k == DigitRun(s) IN
              IF s[1] = DIGIT0 /\ k > 1 THEN ParseFail
              ELSE [ok |-> TRUE, v |-> JInt(NumOf(SubSeq(s, 1, k))), rest |-> Drop(s, k)]
    ELSE IF s[1] = QUOTE
         THEN LET k == IndexOfQuote(Tail(s)) IN
              IF k = 0 THEN ParseFail
              ELSE [ok |-> TRUE, v |-> JStr(SubSeq(s, 2, k)), rest |-> Drop(s, k + 1)]
    ELSE IF s[1] = LIT_NULL THEN [ok |-> TRUE, v |-> JNull, rest |-> Tail(s)]
    ELSE IF s[1] = LIT_TRUE THEN [ok |-> TRUE, v |-> JTrue, rest |-> Tail(s)]
    ELSE ParseFail

(* the items after [ or after a comma *)
RECURSIVE ParseItems(_, _)
ParseItems(s0, acc) ==
    LET r == ParseScalar(s0)
        s == SkipWs(r.rest)
    IN IF ~r.ok \/ s = <<>> THEN ParseFail
       ELSE IF s[1] = RBRACK THEN [ok |-> TRUE, v |-> JList(Append(acc, r.v)), rest |-> Tail(s)]
       ELSE IF s[1] = COMMA THEN ParseItems(Tail(s), Append(acc, r.v))
       ELSE ParseFail

(* the members after { or after a comma *)
RECURSIVE ParseMembers(_, _)
ParseMembers(s0, acc) ==
    LET k == ParseScalar(s0)
        s1 == SkipWs(k.rest)
        r == IF s1 # <<>> THEN ParseScalar(Tail(s1)) ELSE ParseFail
        s == SkipWs(r.rest)
    IN IF ~k.ok \/ k.v.ty # "str" \/ s1 = <<>> \/ s1[1] # COLON \/ ~r.ok \/ s = <<>> THEN ParseFail
       ELSE IF s[1] = RBRACE
            THEN [ok |-> TRUE, v |-> JDict(Append(acc, Member(k.v.s, r.v))), rest |-> Tail(s)]
       ELSE IF s[1] = COMMA THEN ParseMembers(Tail(s), Append(acc, Member(k.v.s, r.v)))
       ELSE ParseFail

ParseValue(s0) ==
    LET s == SkipWs(s0) IN
    IF s = <<>> THEN ParseFail
    ELSE IF s[1] = LBRACK
         THEN (IF SkipWs(Tail(s)) # <<>> /\ SkipWs(Tail(s))[1] = RBRACK
               THEN [ok |-> TRUE, v |-> JList(<<>>), rest |-> Tail(SkipWs(Tail(s)))]
               ELSE ParseItems(Tail(s), <<>>))
    ELSE IF s[1] = LBRACE
         THEN (IF SkipWs(Tail(s)) # <<>> /\ SkipWs(Tail(s))[1] = RBRACE
               THEN [ok |-> TRUE, v |-> JDict(<<>>), rest |-> Tail(SkipWs(Tail(s)))]
               ELSE ParseMembers(Tail(s), <<>>))
    ELSE ParseScalar(s)

json_loads(text) ==
    LET r == ParseValue(text) IN
    IF r.ok /\ SkipWs(r.rest) = <<>> THEN [ok |-> TRUE, v |-> r.v] ELSE [ok |-> FALSE, v |-> JNull]

(* base64.b64encode *)
RECURSIVE b64encode(_)
b64encode(b) ==
    IF b = <<>> THEN <<>>
    ELSE IF Len(b) = 1 THEN <<b[1] \div 4, (b[1] % 4) * 16, PAD, PAD>>
    ELSE IF Len(b) = 2
         THEN <<b[1] \div 4, (b[1] % 4) * 16 + b[2] \div 16, (b[2] % 16) * 4, PAD>>
    ELSE <<b[1] \div 4, (b[1] % 4) * 16 + b[2] \div 16, (b[2] % 16) * 4 + b[3] \div 64, b[3] % 64>>
         \o b64encode(Drop(b, 3))

(* base64.b64decode (binascii.a2b_base64, not strict): characters outside   *)
(* the alphabet are skipped, a complete pad ends the input, and a partial   *)
(* last group is binascii.Error.  Answers [ok, b].                          *)
RECURSIVE a2b_base64(_, _, _, _, _)
a2b_base64(c, quad, left, pads, out) ==
    IF c = <<>> THEN [ok |-> quad = 0, b |-> out]
    ELSE IF c[1] = PAD
         THEN (IF quad >= 2 /\ quad + pads + 1 >= 4 THEN [ok |-> TRUE, b |-> out]
               ELSE a2b_base64(Tail(c), quad, left, IF quad >= 2 THEN pads + 1 ELSE pads, out))
    ELSE IF c[1] > PAD THEN a2b_base64(Tail(c), quad, left, pads, out)
    ELSE CASE quad = 0 -> a2b_base64(Tail(c), 1, c[1], 0, out)
           [] quad = 1 -> a2b_base64(Tail(c), 2, c[1] % 16, 0, Append(out, left * 4 + c[1] \div 16))
           [] quad = 2 -> a2b_base64(Tail(c), 3, c[1] % 4, 0, Append(out, left * 16 + c[1] \div 4))
           [] OTHER -> a2b_base64(Tail(c), 0, 0, 0, Append(out, left * 64 + c[1]))

b64decode(c) == a2b_base64(c, 0, 0, 0, <<>>)

(* bytes.decode(): a byte above 127 is taken as UnicodeDecodeError *)
IsAscii(b) == \A i \in 1..Len(b) : b[i] < 128

(* encode_cursor *)
encode_cursor(data) == b64encode(json_dumps(data))

(* decode_cursor: [ok, v]; not ok is the None returned on any exception *)
decode_cursor(cursor) ==
    LET raw == b64decode(cursor) IN
    IF ~raw.ok \/ ~IsAscii(raw.b) THEN [ok |-> FALSE, v |-> JNull]
    ELSE json_loads(raw.b)

(* create_task_cursor *)
create_task_cursor(task_id, created_at) ==
    encode_cursor(JDict(<<Member(<<KEY_ID>>, JInt(task_id)),
                          Member(<<KEY_CREATED_AT>>, JStr(isoformat(created_at)))>>))

(* Python truthiness of a JSON value *)
JTruthy(v) ==
    CASE v.ty = "int" -> v.n # 0
      [] v.ty = "str" -> v.s # <<>>
      [] v.ty = "null" -> FALSE
      [] v.ty = "true" -> TRUE
      [] OTHER -> v.items # <<>>

(* dict.get(key): the value of the last member with that key, else None *)
RECURSIVE DictGet(_, _)
DictGet(ms, key) ==
    IF ms = <<>> THEN JNull
    ELSE IF ms[Len(ms)].k = key THEN ms[Len(ms)].v
    ELSE DictGet(SubSeq(ms, 1, Len(ms) - 1), key)

NullPair == [kind |-> "null", id |-> JNull, at |-> NoInstant]
Raises == [kind |-> "raise", id |-> JNull, at |-> NoInstant]
Pair(id, at) == [kind |-> "pair", id |-> id, at |-> at]

(* parse_task_cursor: a pair, (None, None), or an uncaught exception:        *)
(* AttributeError of .get on a value that is no dict, or of .replace on a   *)
(* created_at that is no string                                              *)
parse_task_cursor(cursor) ==
    LET data == decode_cursor(cursor) IN
    IF ~data.ok \/ ~JTruthy(data.v) THEN NullPair
    ELSE IF data.v.ty # "dict" THEN Raises
    ELSE LET task_id == DictGet(data.v.items, <<KEY_ID>>)
             created_at_str == DictGet(data.v.items, <<KEY_CREATED_AT>>)
         IN IF JTruthy(task_id) /\ JTruthy(created_at_str)
            THEN (IF created_at_str.ty # "str" THEN Raises
                  ELSE LET r == fromisoformat(ReplaceZ(created_at_str.s)) IN
                       IF r.ok THEN Pair(task_id, r.d) ELSE NullPair)
            ELSE NullPair

(* The codec applied to inputs: a pair is encoded and the cursor parsed,   *)
(* and a cursor of any content is parsed                                    *)

Instants == [t : 0..MaxInstant, us : 0..1, tz : {"utc", "naive"}]

Scalars == {JInt(0), JInt(1), JStr(<<>>), JStr(<<LETTER_X>>), JStr(isoformat(Inst(1))),
            JStr(<<TEE, DIGIT0 + 1, ZED>>), JNull, JTrue}

JVals ==
    Scalars
    \cup {JList(<<>>), JList(<<JInt(1)>>), JDict(<<>>)}
    \cup {JDict(<<Member(<<KEY_ID>>, a)>>) : a \in Scalars}
    \cup {JDict(<<Member(<<KEY_CREATED_AT>>, a)>>) : a \in Scalars}
    \cup {JDict(<<Member(<<KEY_ID>>, a), Member(<<KEY_CREATED_AT>>, b)>>) : a, b \in Scalars}

BrokenTexts == {<<>>, <<LBRACE>>, <<QUOTE, LETTER_X>>, <<LETTER_X>>, <<200>>,
                <<LBRACE, QUOTE, KEY_ID, QUOTE, COLON>>}

RawCursors ==
    {b64encode(json_dumps(v)) : v \in JVals}
    \cup {b64encode(t) : t \in BrokenTexts}
    \cup {<<JUNK, JUNK>>, <<19>>, <<19, 22, 5>>, <<PAD>>}
    \cup {SubSeq(create_task_cursor(1, Inst(1)), 1, k) : k \in 1..8}

InitCodec ==
    /\ StoreInit
    /\ txn = NoTxn
    /\ page = NoPage
    /\ \/ \E id \in 1..MaxId, at \in Instants :
            pure = [fn |-> "cursor", origin |-> "pair", stage |-> "pair", id |-> id, at |-> at,
                    cursor |-> <<>>, out |-> NullPair]
       \/ \E c \in RawCursors :
            pure = [fn |-> "cursor", origin |-> "raw", stage |-> "cursor", id |-> 0,
                    at |-> NoInstant, cursor |-> c, out |-> NullPair]

EncodeCursor ==
    /\ pure.fn = "cursor" /\ pure.stage = "pair"
    /\ pure' = [pure EXCEPT !.stage = "cursor", !.cursor = create_task_cursor(pure.id, pure.at)]
    /\ UNCHANGED <<tasks, entries, now, nextTaskId, nextEntryId, txn, page>>

ParseCursor ==
    /\ pure.fn = "cursor" /\ pure.stage = "cursor"
    /\ pure' = [pure EXCEPT !.stage = "parsed", !.out = parse_task_cursor(pure.cursor)]
    /\ UNCHANGED <<tasks, entries, now, nextTaskId, nextEntryId, txn, page>>

NextCodec == EncodeCursor \/ ParseCursor

SpecCodec == InitCodec /\ [][NextCodec]_vars

-----------------------------------------------------------------------------
(* GET /tasks: cursor pagination.  The status and archived filters are      *)
(* modelled; category and due_before add further conjuncts of the same form *)

PageCap == 100

InstLt(a, b) == a.t < b.t \/ (a.t = b.t /\ a.us < b.us)
InstEq(a, b) == a.t = b.t /\ a.us = b.us

(* get_pagination_params: [cursor, limit] with cursor the parse result *)
get_pagination_params(cursor, limit) ==
    [cursor |-> IF cursor # None /\ Val(cursor) # <<>> THEN parse_task_cursor(Val(cursor)) ELSE NullPair,
     limit |-> IF limit > PageCap THEN PageCap ELSE limit]

(* the where clauses of the owner and of the filters that are present *)
Matches(t, u, status_, archived) ==
    /\ t.owner_id = u
    /\ status_ # None => t.status = Val(status_)
    /\ archived # None => t.is_archived = Val(archived)

(* a cursor condition that compares created_at alone *)
AfterCursor_NoTieBreak(t, cid, ct) == InstLt(t.created_at, ct)

(* a cursor condition that admits the row of the cursor again *)
AfterCursor_Inclusive(t, cid, ct) ==
    \/ InstLt(t.created_at, ct)
    \/ InstEq(t.created_at, ct) /\ t.id <= cid

(* created_at < ct OR (created_at = ct AND id < cid) *)
AfterCursor(t, cid, ct) ==
    \/ InstLt(t.created_at, ct)
    \/ InstEq(t.created_at, ct) /\ t.id < cid

(* ORDER BY created_at DESC, id DESC *)
RowBefore(a, b) ==
    \/ InstLt(b.created_at, a.created_at)
    \/ InstEq(a.created_at, b.created_at) /\ a.id > b.id

RECURSIVE OrderDesc(_, _)
OrderDesc(ts, S) ==
    IF S = {} THEN <<>>
    ELSE LET first == CHOOSE i \in S : \A j \in S \ {i} : RowBefore(ts[i], ts[j])
         IN <<first>> \o OrderDesc(ts, S \ {first})

Min(a, b) == IF a <= b THEN a ELSE b

(* a fetch that leaves out the extra row *)
FetchAll_NoExtra(ts, rows, n) == SubSeq(OrderDesc(ts, rows), 1, Min(n - 1, Cardinality(rows)))

(* db.execute(query).scalars().all(): the ids of the first n rows in order *)
FetchAll(ts, rows, n) == SubSeq(OrderDesc(ts, rows), 1, Min(n, Cardinality(rows)))

(* the select of list_tasks: owner and filter clauses, the cursor clause    *)
(* when cursor_id and cursor_created_at are both truthy, limit + 1 rows     *)
TaskQuery(ts, u, cur, limit, status_, archived) ==
    FetchAll(ts,
             {i \in DOMAIN ts :
                 /\ Matches(ts[i], u, status_, archived)
                 /\ (cur.kind = "pair" /\ JTruthy(cur.id)) => AfterCursor(ts[i], cur.id.n, cur.at)},
             limit + 1)

(* the TaskListResponse built from the fetched rows *)
TaskListResponse(ts, fetched, limit) ==
    LET has_next == Len(fetched) > limit
        items == IF has_next THEN SubSeq(fetched, 1, limit) ELSE fetched
    IN [code |-> 200, items |-> items,
        next_cursor |-> IF has_next /\ items # <<>>
                        THEN Some(create_task_cursor(ts[items[Len(items)]].id,
                                                     ts[items[Len(items)]].created_at))
                        ELSE None,
        has_next |-> has_next]

(* list_tasks with no validation of limit in the route *)
ListFrom_NoValidation(ts, u, pp, limit0, status_, archived) ==
    LET failed(code) == [code |-> code, items |-> <<>>, next_cursor |-> None, has_next |-> FALSE]
    IN IF pp.cursor.kind = "raise" THEN failed(500)
       ELSE IF pp.cursor.kind = "pair" /\ JTruthy(pp.cursor.id) /\ pp.cursor.id.ty # "int"
       THEN failed(500)
       ELSE TaskListResponse(ts, TaskQuery(ts, u, pp.cursor, pp.limit, status_, archived), pp.limit)

(* the body of list_tasks once get_pagination_params has returned pp; 422 is *)
(* the Query(ge=1, le=100) validation of limit, 500 an uncaught exception    *)
(* of the cursor parse or of a cursor id that is no integer                  *)
ListFrom(ts, u, pp, limit0, status_, archived) ==
    LET failed(code) == [code |-> code, items |-> <<>>, next_cursor |-> None, has_next |-> FALSE]
    IN IF limit0 < 1 \/ limit0 > PageCap THEN failed(422)
       ELSE IF pp.cursor.kind = "raise" THEN failed(500)
       ELSE IF pp.cursor.kind = "pair" /\ JTruthy(pp.cursor.id) /\ pp.cursor.id.ty # "int"
       THEN failed(500)
       ELSE TaskListResponse(ts, TaskQuery(ts, u, pp.cursor, pp.limit, status_, archived), pp.limit)

(* list_tasks: the response [code, items, next_cursor, has_next] *)
list_tasks(ts, u, cursor, limit0, status_, archived) ==
    ListFrom(ts, u, get_pagination_params(cursor, limit0), limit0, status_, archived)

(* task tables the store can hold: ids in creation order, equal created_at  *)
(* allowed, any owner, archived or not                                      *)
PageTables ==
    {[i \in 1..MaxPageTasks |->
        [NewTask(i, f[i].owner_id, Inst(f[i].stamp), None)
            EXCEPT !.is_archived = f[i].is_archived]] :
     f \in [1..MaxPageTasks -> [owner_id : Users, stamp : 1..MaxStamp, is_archived : BOOLEAN]]}

InitPage ==
    /\ tasks \in PageTables
    /\ entries = <<>>
    /\ now = 0
    /\ nextTaskId = MaxPageTasks + 1
    /\ nextEntryId = 1
    /\ txn = NoTxn
    /\ pure = NoPure
    /\ \E u \in Users, l \in 1..MaxLimit, st \in {None, Some("done")},
          ar \in {None, Some(TRUE), Some(FALSE)} :
            page = [phase |-> "first", user |-> u, limit |-> l, status_ |-> st, archived |-> ar,
                    cursor |-> None, seen |-> <<>>]

(* the client keeps the items of a response and its next_cursor *)
Follow(pg, r) ==
    [pg EXCEPT !.phase = IF r.code # 200 THEN "error"
                         ELSE IF r.has_next THEN "more" ELSE "done",
               !.cursor = r.next_cursor,
               !.seen = @ \o r.items]

(* the client asks for the first page, then follows next_cursor *)
ListPage ==
    /\ page.phase \in {"first", "more"}
    /\ page' = Follow(page, list_tasks(tasks, page.user, page.cursor, page.limit,
                                       page.status_, page.archived))
    /\ UNCHANGED <<tasks, entries, now, nextTaskId, nextEntryId, txn, pure>>

NextPage == ListPage

SpecPage == InitPage /\ [][NextPage]_vars

(* cursors a client can send: the encoding of any id and instant, of a row  *)
(* of the table or not                                                       *)
ClientCursors ==
    {create_task_cursor(cid, Inst(st)) : cid \in 1..(MaxPageTasks + 1), st \in 1..MaxStamp}

(* the first request carries a cursor *)
InitPageAt ==
    /\ tasks \in PageTables
    /\ entries = <<>>
    /\ now = 0
    /\ nextTaskId = MaxPageTasks + 1
    /\ nextEntryId = 1
    /\ txn = NoTxn
    /\ pure = NoPure
    /\ \E u \in Users, l \in 1..MaxLimit, ar \in {None, Some(FALSE)}, c \in ClientCursors :
            page = [phase |-> "first", user |-> u, limit |-> l, status_ |-> None, archived |-> ar,
                    cursor |-> Some(c), seen |-> <<>>]

SpecPageAt == InitPageAt /\ [][NextPage]_vars

(* A traversal during which other requests change the table.  stable is the *)
(* set of the tasks that have existed and matched the filter at every        *)
(* moment since the first page request                                       *)
MatchingRows(ts, pg) == {i \in DOMAIN ts : Matches(ts[i], pg.user, pg.status_, pg.archived)}

(* the table holds rows of the caller, archived or not *)
InitLive ==
    /\ entries = <<>>
    /\ now = 0
    /\ nextTaskId = MaxPageTasks + 1
    /\ nextEntryId = 1
    /\ txn = NoTxn
    /\ pure = NoPure
    /\ \E u \in Users, l \in 1..MaxLimit, ar \in {None, Some(TRUE), Some(FALSE)} :
          /\ tasks \in {ts \in PageTables : \A i \in DOMAIN ts : ts[i].owner_id = u}
          /\ page = [phase |-> "first", user |-> u, limit |-> l, status_ |-> None, archived |-> ar,
                     cursor |-> None, seen |-> <<>>,
                     stable |-> {i \in DOMAIN tasks : Matches(tasks[i], u, None, ar)}]

(* POST /tasks between two page requests; created_at is the start of the    *)
(* inserting transaction, an instant before or after the rows listed        *)
LiveInsert(u, stamp) ==
    /\ page.phase = "more"
    /\ nextTaskId <= MaxPageTasks + MaxInserts
    /\ tasks' = [i \in DOMAIN tasks \cup {nextTaskId} |->
                    IF i = nextTaskId THEN NewTask(nextTaskId, u, Inst(stamp), None)
                    ELSE tasks[i]]
    /\ nextTaskId' = nextTaskId + 1
    /\ UNCHANGED <<entries, now, nextEntryId, txn, page, pure>>

(* DELETE /tasks/{task_id}?hard=... between two page requests *)
LiveDelete(u, tid, hard) ==
    /\ page.phase = "more"
    /\ tasks' = IF TaskCode(tasks, u, tid) # 200 THEN tasks
                ELSE IF hard THEN [i \in DOMAIN tasks \ {tid} |-> tasks[i]]
                ELSE [tasks EXCEPT ![tid] = Touch(@, [@ EXCEPT !.is_archived = TRUE], now)]
    /\ page' = [page EXCEPT !.stable = @ \cap MatchingRows(tasks', page)]
    /\ UNCHANGED <<entries, now, nextTaskId, nextEntryId, txn, pure>>

(* the other requests are the caller's own from other clients: a request of *)
(* another user neither adds nor removes a row that the caller lists        *)
NextLive ==
    \/ ListPage
    \/ \E stamp \in {0, MaxStamp + 1} : LiveInsert(page.user, stamp)
    \/ \E tid \in 1..(MaxPageTasks + MaxInserts), hard \in BOOLEAN :
          LiveDelete(page.user, tid, hard)

SpecLive == InitLive /\ [][NextLive]_vars

(* the integers a client can send as limit: below, at and above the range   *)
(* of Query(20, ge=1, le=100)                                               *)
LimitInputs == {-1, 0, 1, MaxLimit, PageCap, PageCap + 1}

(* the first request carries any integer limit and no cursor *)
InitLimit ==
    /\ tasks \in PageTables
    /\ entries = <<>>
    /\ now = 0
    /\ nextTaskId = MaxPageTasks + 1
    /\ nextEntryId = 1
    /\ txn = NoTxn
    /\ pure = NoPure
    /\ \E u \in Users, l \in LimitInputs :
            page = [phase |-> "first", user |-> u, limit |-> l, status_ |-> None,
                    archived |-> None, cursor |-> None, seen |-> <<>>]

SpecLimit == InitLimit /\ [][NextPage]_vars

-----------------------------------------------------------------------------
(* Search query normalisation.  A string is a sequence of characters.       *)

WordChars == {"a", "b", "1", "_"}
SpaceChars == {" ", "\t"}
KeptPunct == {"-", "@", "."}
Alphabet == WordChars \cup SpaceChars \cup KeptPunct \cup {"!", "#"}

RECURSIVE LStrip(_)
LStrip(q) == IF q # <<>> /\ q[1] \in SpaceChars THEN LStrip(Tail(q)) ELSE q

RECURSIVE RStrip(_)
RStrip(q) == IF q # <<>> /\ q[Len(q)] \in SpaceChars THEN RStrip(SubSeq(q, 1, Len(q) - 1)) ELSE q

(* str.strip() *)
Strip(q) == RStrip(LStrip(q))

(* re.sub(r"\s+", " ", q) *)
RECURSIVE CollapseSpaces(_)
CollapseSpaces(q) ==
    IF q = <<>> THEN <<>>
    ELSE IF q[1] \in SpaceChars THEN <<" ">> \o CollapseSpaces(LStrip(q))
    ELSE <<q[1]>> \o CollapseSpaces(Tail(q))

(* re.sub(r"[^\w\s\-@.]", " ", q) *)
ReplaceSpecial(q) ==
    [i \in 1..Len(q) |->
        IF q[i] \in WordChars \cup SpaceChars \cup KeptPunct THEN q[i] ELSE " "]

(* normalize_search_query *)
normalize_search_query(query) ==
    IF query = <<>> THEN <<>>
    ELSE Strip(ReplaceSpecial(CollapseSpaces(Strip(query))))

Queries == UNION {[1..n -> Alphabet] : n \in 0..MaxQueryLen}

InitNorm ==
    /\ StoreInit
    /\ txn = NoTxn
    /\ page = NoPage
    /\ \E q \in Queries : pure = [fn |-> "normalize", stage |-> "raw", q |-> q, once |-> <<>>, twice |-> <<>>]

Normalize ==
    /\ pure.fn = "normalize" /\ pure.stage = "raw"
    /\ pure' = [pure EXCEPT !.stage = "once", !.once = normalize_search_query(pure.q)]
    /\ UNCHANGED <<tasks, entries, now, nextTaskId, nextEntryId, txn, page>>

NormalizeAgain ==
    /\ pure.fn = "normalize" /\ pure.stage = "once"
    /\ pure' = [pure EXCEPT !.stage = "twice", !.twice = normalize_search_query(pure.once)]
    /\ UNCHANGED <<tasks, entries, now, nextTaskId, nextEntryId, txn, page>>

NextNorm == Normalize \/ NormalizeAgain

SpecNorm == InitNorm /\ [][NextNorm]_vars

-----------------------------------------------------------------------------
(* GET /tasks/search.  The SQL text is the sequence of the parts that       *)
(* build_search_query joins with spaces: each part is a keyword and what    *)
(* follows it; a filter condition is appended with no keyword before it.    *)

Part(kw, cond) == [kw |-> kw, cond |-> cond]

FilterNames == <<"status", "category", "priority", "created_after", "created_before",
                 "due_after", "due_before", "archived">>

(* the conditions of the filters that are not None, in the order of the code *)
RECURSIVE FilterConditions(_, _)
FilterConditions(filters, k) ==
    IF k > Len(FilterNames) THEN <<>>
    ELSE (IF filters[FilterNames[k]] # None THEN <<Part("", FilterNames[k])>> ELSE <<>>)
         \o FilterConditions(filters, k + 1)

(* build_search_query: [sql, params] *)
build_search_query(query, filters, user_id) ==
    [sql |-> <<Part("SELECT", "rank"), Part("FROM", "tasks"), Part("WHERE", "owner"),
               Part("AND", "match")>>
             \o FilterConditions(filters, 1)
             \o <<Part("ORDER BY", "rank")>>,
     params |-> [query |-> normalize_search_query(query), user_id |-> user_id, filters |-> filters]]

(* the words of a text: to_tsvector and plainto_tsquery split on spaces *)
RECURSIVE WordsOf(_)
WordsOf(q) ==
    IF q = <<>> THEN {}
    ELSE IF q[1] = " " THEN WordsOf(Tail(q))
    ELSE LET k == CHOOSE n \in 1..Len(q) :
                    /\ \A i \in 1..n : q[i] # " "
                    /\ n = Len(q) \/ q[n + 1] = " "
         IN {SubSeq(q, 1, k)} \cup WordsOf(Drop(q, k))

(* one condition of the where clause on one row; a NULL column is not true *)
CondHolds(cond, t, params) ==
    LET f == params.filters IN
    CASE cond = "owner" -> t.owner_id = params.user_id
      [] cond = "match" -> WordsOf(params.query) # {} /\ WordsOf(params.query) \subseteq WordsOf(t.title)
      [] cond = "status" -> t.status = Val(f.status)
      [] cond = "category" -> t.category # None /\ Val(t.category) = Val(f.category)
      [] cond = "priority" -> t.priority = Val(f.priority)
      [] cond = "created_after" -> ~InstLt(t.created_at, Val(f.created_after))
      [] cond = "created_before" -> ~InstLt(Val(f.created_before), t.created_at)
      [] cond = "due_after" -> t.due_date # None /\ ~InstLt(Val(t.due_date), Val(f.due_after))
      [] cond = "due_before" -> t.due_date # None /\ ~InstLt(Val(f.due_before), Val(t.due_date))
      [] OTHER -> t.is_archived = Val(f.archived)

(* the statement parses when it is SELECT FROM WHERE c (AND c)* ORDER BY *)
SqlParses(sql) ==
    /\ Len(sql) >= 4
    /\ sql[1].kw = "SELECT" /\ sql[2].kw = "FROM" /\ sql[3].kw = "WHERE"
    /\ sql[Len(sql)].kw = "ORDER BY"
    /\ \A k \in 4..(Len(sql) - 1) : sql[k].kw = "AND"

(* the rows the statement selects *)
SqlRows(ts, sql, params) ==
    {i \in DOMAIN ts : \A k \in 3..(Len(sql) - 1) : CondHolds(sql[k].cond, ts[i], params)}

(* search_tasks that runs the query whatever the normalized text is *)
search_tasks_NoEmptyCheck(ts, u, q, limit, filters) ==
    LET normalized_query == normalize_search_query(q)
        built == build_search_query(normalized_query, filters, u)
        rows == SqlRows(ts, built.sql, built.params)
        fetched == SubSeq(OrderDesc(ts, rows), 1, Min(limit + 1, Cardinality(rows)))
    IN IF ~SqlParses(built.sql)
       THEN [code |-> 500, items |-> <<>>, total_matches |-> 0, store_queries |-> 1]
       ELSE [code |-> 200,
             items |-> IF Len(fetched) > limit THEN SubSeq(fetched, 1, limit) ELSE fetched,
             total_matches |-> Cardinality(rows),
             store_queries |-> 2]

(* search_tasks: [code, items, total_matches, store_queries]; 422 is the     *)
(* Query(min_length=1) validation of q, any exception of the store becomes   *)
(* 500; store_queries counts the db.execute calls: the search, the count and *)
(* the suggestions for a text of two characters or more                      *)
search_tasks(ts, u, q, limit, filters) ==
    LET normalized_query == normalize_search_query(q)
        built == build_search_query(normalized_query, filters, u)
        rows == SqlRows(ts, built.sql, built.params)
        fetched == SubSeq(OrderDesc(ts, rows), 1, Min(limit + 1, Cardinality(rows)))
        failed(code, n) == [code |-> code, items |-> <<>>, total_matches |-> 0, store_queries |-> n]
    IN IF Len(q) < 1 THEN failed(422, 0)
       ELSE IF normalized_query = <<>> THEN failed(400, 0)
       ELSE IF ~SqlParses(built.sql) THEN failed(500, 1)
       ELSE [code |-> 200,
             items |-> IF Len(fetched) > limit THEN SubSeq(fetched, 1, limit) ELSE fetched,
             total_matches |-> Cardinality(rows),
             store_queries |-> IF Len(normalized_query) < 2 THEN 2 ELSE 3]

(* the attribute bundles of the rows searched *)
BundleA == [category |-> Some("c"), status |-> "todo", priority |-> "high",
            created_at |-> Inst(1), due_date |-> Some(Inst(1)), is_archived |-> FALSE]
BundleB == [category |-> None, status |-> "done", priority |-> "medium",
            created_at |-> Inst(2), due_date |-> None, is_archived |-> TRUE]

SearchRow(i, u, title, b) ==
    [NewTask(i, u, b.created_at, None)
        EXCEPT !.title = title, !.category = b.category, !.status = b.status,
               !.priority = b.priority, !.due_date = b.due_date, !.is_archived = b.is_archived]

SearchTables ==
    {[i \in 1..MaxSearchTasks |-> SearchRow(i, f[i].owner_id, f[i].title, f[i].bundle)] :
     f \in [1..MaxSearchTasks -> [owner_id : Users, title : {<<"a">>, <<"b", " ", "a">>},
                                  bundle : {BundleA, BundleB}]]}

(* SearchFilters: every field None or the value that rows of BundleA have *)
SearchFilterSets ==
    [status : {None, Some("todo")}, category : {None, Some("c")}, priority : {None, Some("high")},
     created_after : {None, Some(Inst(1))}, created_before : {None, Some(Inst(1))},
     due_after : {None, Some(Inst(1))}, due_before : {None, Some(Inst(1))},
     archived : {None, Some(FALSE)}]

NoResponse == [code |-> 0, items |-> <<>>, total_matches |-> 0, store_queries |-> 0]

NoFilters == [n \in {FilterNames[k] : k \in 1..Len(FilterNames)} |-> None]

InitSearch ==
    /\ tasks \in SearchTables
    /\ entries = <<>>
    /\ now = 0
    /\ nextTaskId = MaxSearchTasks + 1
    /\ nextEntryId = 1
    /\ txn = NoTxn
    /\ page = NoPage
    /\ \E u \in Users, q \in {<<"b">>, <<"!">>}, f \in SearchFilterSets :
          pure = [fn |-> "search", stage |-> "request", user |-> u, q |-> q, filters |-> f,
                  out |-> NoResponse]

SearchTasks ==
    /\ pure.fn = "search" /\ pure.stage = "request"
    /\ pure' = [pure EXCEPT !.stage = "response",
                            !.out = search_tasks(tasks, pure.user, pure.q, PageCap, pure.filters)]
    /\ UNCHANGED <<tasks, entries, now, nextTaskId, nextEntryId, txn, page>>

NextSearch == SearchTasks

SpecSearch == InitSearch /\ [][NextSearch]_vars

(* every text q of up to MaxSearchLen characters, searched with no filter  *)
(* in tables whose rows differ by their owner                              *)
SearchTexts == UNION {[1..n -> Alphabet] : n \in 0..MaxSearchLen}

InitQuery ==
    /\ tasks \in {ts \in SearchTables :
                      \A i \in DOMAIN ts : ts[i].title = <<"a">> /\ ts[i].status = "todo"}
    /\ entries = <<>>
    /\ now = 0
    /\ nextTaskId = MaxSearchTasks + 1
    /\ nextEntryId = 1
    /\ txn = NoTxn
    /\ page = NoPage
    /\ \E u \in Users, q \in SearchTexts :
          pure = [fn |-> "search", stage |-> "request", user |-> u, q |-> q,
                  filters |-> NoFilters, out |-> NoResponse]

SpecQuery == InitQuery /\ [][NextSearch]_vars

-----------------------------------------------------------------------------
(* C1: with requests run one after the other, every owner has at most one *)
(* TimeEntry with status active.                                           *)
AtMostOneActive == \A u \in Users : Cardinality(ActiveOf(entries, u)) <= 1

(* an owner holds an active entry after an earlier entry was started too *)
W_AtMostOneActive ==
    \E u \in Users : Cardinality(ActiveOf(entries, u)) = 1 /\ nextEntryId > 2

(* null counted as zero *)
NZ(o) == IF o = None THEN 0 ELSE Val(o)

(* C2: once concurrent start-timer requests of an owner have all finished, *)
(* the owner has at most one TimeEntry with status active.                  *)
ConcurrentStartsKeepOneActive ==
    (\A r \in Reqs : txn[r].pc = "idle")
    => \A u \in Users : Cardinality(ActiveOf(entries, u)) <= 1

StopAccounting ==
    /\ [](\A u \in Users, eid \in DOMAIN entries :
            entries[eid].owner_id = u /\ entries[eid].status = "active"
            => StopCode(tasks, entries, u, eid) = 200)
    /\ [][\A u \in Users, eid \in DOMAIN entries :
            (entries[eid].owner_id = u /\ entries[eid].status = "active" /\ stop_timer(u, eid))
            => LET mins == (now - entries[eid].start_time) \div 60
                   tid == entries[eid].task_id
               IN /\ entries'[eid].end_time = Some(now)
                  /\ entries'[eid].duration_minutes = Some(mins)
                  /\ entries'[eid].status = "completed"
                  /\ tasks'[tid].actual_minutes = Some(NZ(tasks[tid].actual_minutes) + mins)]_vars

(* a timer that ran a whole minute was stopped on a task that had minutes already *)
W_StopAccounting ==
    \E e \in DOMAIN entries :
        /\ entries[e].status = "completed"
        /\ entries[e].duration_minutes = Some(1)
        /\ entries[e].end_time = Some(now)
        /\ tasks[entries[e].task_id].actual_minutes = Some(2)

(* C5: every task's actual_minutes is null or at least zero in every state *)
(* reachable through the API, the legacy stop-timer endpoint included.      *)
ActualMinutesNonNegative ==
    \A t \in DOMAIN tasks :
        tasks[t].actual_minutes = None \/ Val(tasks[t].actual_minutes) >= 0

(* C6: parse_task_cursor never raises: for every cursor string it returns  *)
(* an (id, instant) pair or (null, null).                                  *)
CursorDecodingTotal ==
    (pure.fn = "cursor" /\ pure.stage = "parsed") => pure.out.kind \in {"pair", "null"}

(* C7: parse_task_cursor(create_task_cursor(id, t)) = (id, t) for every    *)
(* task id and creation instant.                                           *)
CursorRoundTrip ==
    (pure.fn = "cursor" /\ pure.stage = "parsed" /\ pure.origin = "pair")
    => pure.out = Pair(JInt(pure.id), pure.at)

(* a pair with a two-digit id and a fractional, zone-aware instant went round *)
W_CursorRoundTrip ==
    /\ pure.fn = "cursor" /\ pure.stage = "parsed" /\ pure.origin = "pair"
    /\ pure.id >= 10 /\ pure.at.us # 0 /\ pure.at.tz = "utc"
    /\ pure.out.kind = "pair"

(* C8: normalize_search_query is idempotent: normalizing a normalized query *)
(* gives the same string.                                                    *)
NormalizeIdempotent ==
    (pure.fn = "normalize" /\ pure.stage = "twice") => pure.twice = pure.once

(* C9: for every combination of present and absent filters, a search whose  *)
(* query has text succeeds and returns exactly the caller's tasks that match *)
(* the text and satisfy every present filter.                               *)
SearchSelectsFiltered ==
    (pure.fn = "search" /\ pure.stage = "response" /\ normalize_search_query(pure.q) # <<>>)
    => /\ pure.out.code = 200
       /\ {pure.out.items[k] : k \in 1..Len(pure.out.items)}
            = {i \in DOMAIN tasks :
                 /\ tasks[i].owner_id = pure.user
                 /\ WordsOf(normalize_search_query(pure.q)) \subseteq WordsOf(tasks[i].title)
                 /\ \A k \in 1..Len(FilterNames) :
                       pure.filters[FilterNames[k]] # None
                       => CondHolds(FilterNames[k], tasks[i],
                                    [query |-> pure.q, user_id |-> pure.user, filters |-> pure.filters])}

StopRejectedWhenNotActive ==
    /\ [](\A u \in Users, eid \in DOMAIN entries :
            entries[eid].owner_id = u /\ entries[eid].status # "active"
            => StopCode(tasks, entries, u, eid) = 400)
    /\ [][\A u \in Users, eid \in DOMAIN entries :
            (entries[eid].owner_id = u /\ entries[eid].status # "active" /\ stop_timer(u, eid))
            => entries' = entries /\ tasks' = tasks]_vars

(* an entry that ran for a minute was stopped, and the clock has moved on   *)
(* since, so that a second stop would compute a longer duration             *)
W_StopRejectedWhenNotActive ==
    \E e \in DOMAIN entries :
        /\ entries[e].status = "completed"
        /\ entries[e].duration_minutes = Some(1)
        /\ tasks[entries[e].task_id].actual_minutes = Some(1)
        /\ entries[e].end_time # None /\ Val(entries[e].end_time) < now

(* C12: delete-time-entry by the owner removes the entry and nothing else;  *)
(* for a completed entry with duration d the task's actual_minutes becomes  *)
(* max(0, actual_minutes - d), for any other entry the tasks are unchanged;  *)
(* a delete of an id that is gone answers 404 and changes nothing; and no    *)
(* actual_minutes is negative.                                              *)
DeleteAccounting ==
    /\ [](\A u \in Users, eid \in 1..MaxEntries :
            eid \notin DOMAIN entries => EntryCode(entries, u, eid) = 404)
    /\ [](\A t \in DOMAIN tasks :
            tasks[t].actual_minutes = None \/ Val(tasks[t].actual_minutes) >= 0)
    /\ [][\A u \in Users, eid \in 1..MaxEntries :
            (eid \notin DOMAIN entries /\ delete_time_entry(u, eid))
            => entries' = entries /\ tasks' = tasks]_vars
    /\ [][\A u \in Users, eid \in DOMAIN entries :
            (entries[eid].owner_id = u /\ delete_time_entry(u, eid))
            => LET e == entries[eid] IN
               /\ entries' = [i \in DOMAIN entries \ {eid} |-> entries[i]]
               /\ IF e.status = "completed" /\ e.duration_minutes # None
                  THEN /\ DOMAIN tasks' = DOMAIN tasks
                       /\ \A t \in DOMAIN tasks \ {e.task_id} : tasks'[t] = tasks[t]
                       /\ tasks'[e.task_id].actual_minutes =
                             Some(Max(0, NZ(tasks[e.task_id].actual_minutes)
                                         - Val(e.duration_minutes)))
                  ELSE tasks' = tasks]_vars

OwnRows == {i \in DOMAIN tasks : tasks[i].owner_id = page.user}

(* C14 as stated: for every integer limit, list-tasks does not reject the   *)
(* request and the page holds min(max(limit, 1), 100) rows, or all the      *)
(* matching rows when there are fewer.                                      *)
LimitClamped ==
    [][(page.phase = "first" /\ ListPage)
       => /\ page'.phase # "error"
          /\ Len(page'.seen) = Min(Min(Max(page.limit, 1), PageCap), Cardinality(OwnRows))]_vars

(* C14 amended: list-tasks accepts a limit in 1..100 and the page holds     *)
(* limit rows, or all the matching rows when there are fewer; it rejects    *)
(* every other integer limit and returns no page.                           *)
LimitValidated ==
    [][(page.phase = "first" /\ ListPage)
       => IF page.limit \in 1..PageCap
          THEN /\ page'.phase # "error"
               /\ Len(page'.seen) = Min(page.limit, Cardinality(OwnRows))
          ELSE /\ page'.phase = "error"
               /\ page'.seen = <<>>
               /\ page'.cursor = None]_vars

(* a request with limit 101 was rejected although the caller has rows *)
W_LimitValidated ==
    /\ page.phase = "error"
    /\ page.limit = PageCap + 1
    /\ OwnRows # {}

NormalizedSpacing ==
    (pure.fn = "normalize" /\ pure.stage # "raw")
    => LET out == pure.once IN
       /\ \A k \in 1..(Len(out) - 1) : ~(out[k] \in SpaceChars /\ out[k + 1] \in SpaceChars)
       /\ out # <<>> => out[1] \notin SpaceChars /\ out[Len(out)] \notin SpaceChars

(* C17: every character of the normalized output is a letter, a digit, a    *)
(* space, a hyphen, '@' or '.'; the other characters of the input are       *)
(* replaced by spaces, so that the output without its spaces is the input   *)
(* without its whitespace and its other characters.                         *)
NormalizedCharacters ==
    (pure.fn = "normalize" /\ pure.stage # "raw")
    => /\ \A k \in 1..Len(pure.once) : pure.once[k] \in {"a", "b", "1", " ", "-", "@", "."}
       /\ SelectSeq(pure.once, LAMBDA ch : ch # " ")
            = SelectSeq(pure.q, LAMBDA ch : ch \in {"a", "b", "1", "-", "@", "."})

(* C18: in every reachable state, concurrent requests included, the        *)
(* active-timer query of an owner does not fail and returns either null or  *)
(* the owner's single active entry with elapsed_minutes = the whole minutes  *)
(* from its start_time to now, which is not negative.                        *)
ActiveTimerQueryTotal ==
    \A u \in Users :
        LET r == ActiveTimer(tasks, entries, u, now) IN
        /\ r.code = 200
        /\ \/ r.body = None /\ ActiveOf(entries, u) = {}
           \/ /\ r.body # None
              /\ ActiveOf(entries, u) = {Val(r.body).time_entry_id}
              /\ Val(r.body).elapsed_minutes = (now - entries[Val(r.body).time_entry_id].start_time) \div 60
              /\ Val(r.body).elapsed_minutes >= 0

(* C19: stop-timer answers 404 when the time entry does not exist, and     *)
(* also when the caller's active entry references a task that no longer     *)
(* exists; in both cases no entry and no task is changed.                   *)
StopNotFound ==
    /\ [](\A u \in Users, eid \in 1..MaxEntries :
            eid \notin DOMAIN entries => StopCode(tasks, entries, u, eid) = 404)
    /\ [](\A u \in Users, eid \in DOMAIN entries :
            (/\ entries[eid].owner_id = u
             /\ entries[eid].status = "active"
             /\ entries[eid].task_id \notin DOMAIN tasks)
            => StopCode(tasks, entries, u, eid) = 404)
    /\ [][\A u \in Users, eid \in 1..MaxEntries :
            ((eid \notin DOMAIN entries \/ entries[eid].task_id \notin DOMAIN tasks)
             /\ stop_timer(u, eid))
            => entries' = entries /\ tasks' = tasks]_vars

(* C20: an active TimeEntry has end_time and duration_minutes null and a    *)
(* completed one has both set; end_time and duration_minutes of an entry    *)
(* change only in the stop-timer step that completes it.                    *)
EndTimeOnlyAtStop ==
    /\ [](\A e \in DOMAIN entries :
            /\ entries[e].status = "active"
               => entries[e].end_time = None /\ entries[e].duration_minutes = None
            /\ entries[e].status = "completed"
               => entries[e].end_time # None /\ entries[e].duration_minutes # None)
    /\ [][\A e \in DOMAIN entries \cap DOMAIN entries' :
            (\/ entries'[e].end_time # entries[e].end_time
             \/ entries'[e].duration_minutes # entries[e].duration_minutes)
            => /\ entries[e].status = "active"
               /\ entries'[e].status = "completed"
               /\ entries'[e].end_time = Some(now)
               /\ \E u \in Users : stop_timer(u, e)]_vars

(* C21 as stated: a task's actual_minutes changes only in a stop-timer or   *)
(* delete-time-entry step; every other operation on an existing task leaves *)
(* it unchanged.                                                            *)
MinutesOnlyByTimers ==
    [][\A t \in DOMAIN tasks \cap DOMAIN tasks' :
          tasks'[t].actual_minutes # tasks[t].actual_minutes
          => \/ \E u \in Users, eid \in DOMAIN entries : stop_timer(u, eid)
             \/ \E u \in Users, eid \in DOMAIN entries : delete_time_entry(u, eid)]_vars

(* C21 amended: a task's actual_minutes changes only in a stop-timer or     *)
(* delete-time-entry step, in a task update whose payload carries           *)
(* actual_minutes, or in the legacy stop-timer endpoint; a task update       *)
(* without actual_minutes, a soft delete, an unarchive, a timer start and a  *)
(* time-entry update leave the actual_minutes of every task unchanged.       *)
MinutesFrame ==
    /\ [][\A t \in DOMAIN tasks \cap DOMAIN tasks' :
            tasks'[t].actual_minutes # tasks[t].actual_minutes
            => \/ \E u \in Users, eid \in DOMAIN entries : stop_timer(u, eid)
               \/ \E u \in Users, eid \in DOMAIN entries : delete_time_entry(u, eid)
               \/ \E u \in Users, upd \in TaskUpdates :
                     "actual_minutes" \in upd.fields /\ update_task(u, t, upd)
               \/ \E u \in Users, m \in {-1, 1} : stop_task_timer(u, t, m)]_vars
    /\ [][(\/ \E u \in Users, tid \in 1..MaxTasks, upd \in TaskUpdates :
                "actual_minutes" \notin upd.fields /\ update_task(u, tid, upd)
           \/ \E u \in Users, tid \in 1..MaxTasks : delete_task(u, tid, FALSE, TRUE)
           \/ \E u \in Users, tid \in 1..MaxTasks : unarchive_task(u, tid)
           \/ \E u \in Users, tid \in 1..MaxTasks : start_timer(u, tid)
           \/ \E u \in Users, eid \in 1..MaxEntries, upd \in EntryUpdates :
                update_time_entry(u, eid, upd))
          => /\ DOMAIN tasks' = DOMAIN tasks
             /\ \A t \in DOMAIN tasks : tasks'[t].actual_minutes = tasks[t].actual_minutes]_vars

(* a task with recorded minutes was archived and unarchived again while its  *)
(* active entry had its end_time patched                                     *)
W_MinutesFrame ==
    \E t \in DOMAIN tasks, e \in DOMAIN entries :
        /\ tasks[t].actual_minutes = Some(1)
        /\ ~tasks[t].is_archived
        /\ \E t2 \in DOMAIN tasks : tasks[t2].is_archived
        /\ entries[e].task_id = t
        /\ entries[e].status = "active"
        /\ entries[e].end_time # None

(* C22: a soft delete by the owner sets is_archived to true and leaves      *)
(* every other field of the task unchanged, and the task remains            *)
(* retrievable by id; unarchive by the owner succeeds only on an archived    *)
(* task, sets is_archived to false, and answers 400 leaving the task         *)
(* unchanged when the task is not archived.                                  *)
SoftDeleteOnlyArchives ==
    /\ [](\A u \in Users, tid \in DOMAIN tasks :
            tasks[tid].owner_id = u
            => UnarchiveResponse(tasks, u, tid) = (IF tasks[tid].is_archived THEN 200 ELSE 400))
    /\ [][\A u \in Users, tid \in DOMAIN tasks :
            (tasks[tid].owner_id = u /\ delete_task(u, tid, FALSE, TRUE))
            => /\ tasks' = [tasks EXCEPT ![tid].is_archived = TRUE]
               /\ get_task(tasks', u, tid) = [code |-> 200, body |-> Some(tasks'[tid])]]_vars
    /\ [][\A u \in Users, tid \in DOMAIN tasks :
            (tasks[tid].owner_id = u /\ unarchive_task(u, tid))
            => IF tasks[tid].is_archived
               THEN /\ DOMAIN tasks' = DOMAIN tasks
                    /\ ~tasks'[tid].is_archived
                    /\ \A t \in DOMAIN tasks \ {tid} : tasks'[t] = tasks[t]
               ELSE tasks' = tasks]_vars

(* the sum of duration_minutes over the completed entries E of a task *)
RECURSIVE SumDurations(_, _)
SumDurations(es, E) ==
    IF E = {} THEN 0
    ELSE LET e == CHOOSE x \in E : TRUE
         IN NZ(es[e].duration_minutes) + SumDurations(es, E \ {e})

(* the completed entries of a task *)
CompletedOf(es, tid) == {e \in DOMAIN es : es[e].task_id = tid /\ es[e].status = "completed"}

(* C23: once concurrent stop-timer and delete-time-entry requests on entries *)
(* of a task have all finished, the task's actual_minutes is the value that   *)
(* running them one after the other produces: every duration of a completed   *)
(* entry that still exists is counted exactly once.                           *)
ConcurrentMinutesSerial ==
    (\A r \in Reqs : txn[r].pc = "idle")
    => \A t \in DOMAIN tasks :
          NZ(tasks[t].actual_minutes) = SumDurations(entries, CompletedOf(entries, t))

(* C24: with requests run one after the other and tasks created without     *)
(* actual_minutes, after any sequence of start-timer, stop-timer,             *)
(* update-time-entry and delete-time-entry requests each task's               *)
(* actual_minutes, null counted as zero, is the sum of duration_minutes over  *)
(* the task's existing completed entries.                                     *)
MinutesEqualDurations ==
    \A t \in DOMAIN tasks :
        NZ(tasks[t].actual_minutes) = SumDurations(entries, CompletedOf(entries, t))

(* C25: while a client follows next_cursor and other requests insert,       *)
(* delete and archive tasks between the page requests, no task id is         *)
(* returned twice, and when the traversal ends every task that existed and   *)
(* matched the filter during the whole traversal has been returned.          *)
TraversalUnderChanges ==
    page.phase \in {"more", "done"} =>
        /\ \A j, k \in 1..Len(page.seen) : j # k => page.seen[j] # page.seen[k]
        /\ page.phase = "done" => page.stable \subseteq {page.seen[k] : k \in 1..Len(page.seen)}

(* a traversal of two pages or more ended after a task was inserted and a    *)
(* matching task was deleted or archived behind the cursor, and a task that  *)
(* matched all along was returned after the changes                          *)
W_TraversalUnderChanges ==
    /\ page.phase = "done"
    /\ Len(page.seen) >= 2
    /\ nextTaskId > MaxPageTasks + 1
    /\ page.stable # {}
    /\ \E i \in 1..MaxPageTasks :
          i \notin page.stable /\ (i \notin DOMAIN tasks \/ tasks[i].is_archived)

StatusOnlyCompletes ==
    /\ [](\A e \in DOMAIN entries : entries[e].status \in {"active", "completed"})
    /\ [][/\ \A e \in DOMAIN entries' \ DOMAIN entries : entries'[e].status = "active"
          /\ \A e \in DOMAIN entries \cap DOMAIN entries' :
                entries'[e].status # entries[e].status
                => entries[e].status = "active" /\ entries'[e].status = "completed"]_vars

(* a completed entry whose end_time an update has cleared or moved, next to  *)
(* a second entry                                                            *)
W_StatusOnlyCompletes ==
    \E e \in DOMAIN entries :
        /\ entries[e].status = "completed"
        /\ entries[e].end_time = None
        /\ Cardinality(DOMAIN entries) = 2

(* C28: whenever an owner has no active entry, start-timer on any existing   *)
(* task of theirs answers 201 and adds exactly one entry: active, start_time *)
(* now, end_time and duration_minutes null, every other row unchanged; and   *)
(* after a successful stop or delete of the owner's active entry the owner   *)
(* has no active entry, so that start-timer answers 201 again.               *)
StartAlwaysPossible ==
    /\ [](\A u \in Users, tid \in DOMAIN tasks :
            (tasks[tid].owner_id = u /\ ActiveOf(entries, u) = {})
            => StartCode(tasks, entries, u, tid) = 201)
    /\ [][\A u \in Users, tid \in DOMAIN tasks :
            (tasks[tid].owner_id = u /\ ActiveOf(entries, u) = {} /\ start_timer(u, tid))
            => /\ tasks' = tasks
               /\ \E id \in DOMAIN entries' \ DOMAIN entries :
                     /\ DOMAIN entries' = DOMAIN entries \cup {id}
                     /\ entries'[id] = [id |-> id, task_id |-> tid, owner_id |-> u,
                                        start_time |-> now, end_time |-> None,
                                        duration_minutes |-> None, status |-> "active"]
               /\ \A e \in DOMAIN entries : entries'[e] = entries[e]
               /\ ActiveOf(entries', u) = {nextEntryId}]_vars
    /\ [][\A u \in Users, eid \in DOMAIN entries :
            (/\ entries[eid].owner_id = u /\ entries[eid].status = "active"
             /\ \/ StopCode(tasks, entries, u, eid) = 200 /\ stop_timer(u, eid)
                \/ delete_time_entry(u, eid))
            => /\ ActiveOf(entries', u) = {}
               /\ \A tid \in DOMAIN tasks' :
                     tasks'[tid].owner_id = u => StartCode(tasks', entries', u, tid) = 201]_vars

(* an owner who stopped a timer and started the next one later *)
W_StartAlwaysPossible ==
    \E e1, e2 \in DOMAIN entries :
        /\ entries[e1].owner_id = entries[e2].owner_id
        /\ entries[e1].status = "completed" /\ entries[e1].end_time # None
        /\ entries[e2].status = "active"
        /\ entries[e2].start_time = now /\ now > 0
        /\ entries[e2].start_time >= Val(entries[e1].end_time)

(* C29: a request that ends with an error leaves no persisted change: when   *)
(* the response of a request is an error, the tasks are as they were when    *)
(* the request began, also when the failure comes after the handler's first  *)
(* commit.                                                                   *)
ErrorLeavesNoChange ==
    (txn.pc = "done" /\ txn.code >= 400) => tasks = txn.before

(* C30: in every reachable state the owner of a time entry is the owner of   *)
(* the task it references, and a stop-timer or delete-time-entry of a user   *)
(* changes actual_minutes only on tasks owned by that user.                  *)
EntryOwnerIsTaskOwner ==
    /\ [](\A e \in DOMAIN entries :
            entries[e].task_id \in DOMAIN tasks
            => tasks[entries[e].task_id].owner_id = entries[e].owner_id)
    /\ [][\A u \in Users, eid \in DOMAIN entries :
            (stop_timer(u, eid) \/ delete_time_entry(u, eid))
            => \A t \in DOMAIN tasks :
                  (t \in DOMAIN tasks' /\ tasks'[t].actual_minutes # tasks[t].actual_minutes)
                  => tasks[t].owner_id = u]_vars

====
